---- MODULE Spec2Model ----
(***************************************************************************)
(* Model of streamlitTurbulenceInletCalculator.py: one Streamlit script    *)
(* that is re-executed from its first line on every user interaction.      *)
(*                                                                         *)
(* Numbers.  The script computes with Python floats.  A float is modelled  *)
(* as a record [t, n, d, e]:                                               *)
(*   t = "none"  Python None (the value of line 58)                        *)
(*   t = "zero"  0.0          t = "inf"  float('inf')     t = "nan"  nan   *)
(*   t = "rat"   the positive value (n/d) * H^e, n/d in lowest terms       *)
(*   t = "irr"   a positive value m * H^e whose significand m is not       *)
(*               tracked (results of pi, ** -0.125, ** -0.25, sqrt)        *)
(* H stands for 1e100.  A double holds magnitudes from about 1e-308 to     *)
(* 1e308, so a result with e > ExpLim overflows to inf and one with        *)
(* e < -ExpLim underflows to 0.0, as Python's arithmetic does; adding a    *)
(* value to one that is H times larger leaves the larger one (53-bit       *)
(* significand).  Rounding of the significand is not modelled: n/d is      *)
(* exact.  The script never produces a negative number from its inputs.    *)
(***************************************************************************)
EXTENDS Integers, FiniteSets, Sequences, TLC

\* ------------------------------------------------------------- bounds
\* Scalar inputs have significands 1..MaxMant and magnitudes H^0 or H^MaxExp.
MaxMant == 2
MaxExp == 2
\* Largest |e| a double holds, in units of H = 1e100.
ExpLim == 3
\* A significand is tracked exactly while its numerator and denominator stay
\* within MantLim; beyond that only its magnitude is.
MantLim == 40000

\* ------------------------------------------------------------ numbers
RECURSIVE GCD(_, _)
GCD(x, y) == IF y = 0 THEN x ELSE GCD(y, x % y)

None == [t |-> "none", n |-> 0, d |-> 1, e |-> 0]
Zero == [t |-> "zero", n |-> 0, d |-> 1, e |-> 0]
Inf == [t |-> "inf", n |-> 0, d |-> 1, e |-> 0]
NaN == [t |-> "nan", n |-> 0, d |-> 1, e |-> 0]

\* A positive float of magnitude H^e whose significand is not tracked.
Irr(e) ==
    IF e > ExpLim THEN Inf
    ELSE IF e < -ExpLim THEN Zero
    ELSE [t |-> "irr", n |-> 1, d |-> 1, e |-> e]

\* The float (n/d) * H^e for integers n, d > 0.
Rat(n, d, e) ==
    LET g == GCD(n, d) IN
    IF e > ExpLim THEN Inf
    ELSE IF e < -ExpLim THEN Zero
    ELSE IF n \div g > MantLim \/ d \div g > MantLim THEN Irr(e)
    ELSE [t |-> "rat", n |-> n \div g, d |-> d \div g, e |-> e]

IsNone(x) == x.t = "none"
IsFin(x) == x.t \in {"rat", "irr"}
\* Python's  x > 0  (False for nan).
GtZero(x) == x.t \in {"rat", "irr", "inf"}
\* Python's truth value of a float or None: None and 0.0 are false, nan is true.
Truthy(x) == x.t \notin {"none", "zero"}

\* x * y
Mul(x, y) ==
    IF x.t = "nan" \/ y.t = "nan" THEN NaN
    ELSE IF (x.t = "zero" /\ y.t = "inf") \/ (x.t = "inf" /\ y.t = "zero") THEN NaN
    ELSE IF x.t = "zero" \/ y.t = "zero" THEN Zero
    ELSE IF x.t = "inf" \/ y.t = "inf" THEN Inf
    ELSE IF x.t = "rat" /\ y.t = "rat" THEN Rat(x.n * y.n, x.d * y.d, x.e + y.e)
    ELSE Irr(x.e + y.e)

\* x / y for y # 0.0 (Python raises ZeroDivisionError for y = 0.0: DivRaises)
Div(x, y) ==
    IF x.t = "nan" \/ y.t = "nan" THEN NaN
    ELSE IF x.t = "inf" /\ y.t = "inf" THEN NaN
    ELSE IF x.t = "inf" THEN Inf
    ELSE IF x.t = "zero" \/ y.t = "inf" THEN Zero
    ELSE IF x.t = "rat" /\ y.t = "rat" THEN Rat(x.n * y.d, x.d * y.n, x.e - y.e)
    ELSE Irr(x.e - y.e)

DivRaises(y) == y.t = "zero"

\* x > y for positive finite tracked values (the comparison of line 86)
Gt(x, y) ==
    \/ x.e > y.e
    \/ x.e = y.e /\ x.n * y.d > y.n * x.d

\* x + y
Add(x, y) ==
    IF x.t = "nan" \/ y.t = "nan" THEN NaN
    ELSE IF x.t = "inf" \/ y.t = "inf" THEN Inf
    ELSE IF x.t = "zero" THEN y
    ELSE IF y.t = "zero" THEN x
    ELSE IF x.e > y.e THEN x
    ELSE IF y.e > x.e THEN y
    ELSE IF x.t = "rat" /\ y.t = "rat" THEN Rat(x.n * y.d + y.n * x.d, x.d * y.d, x.e)
    ELSE Irr(x.e)

\* x - y for x >= y (the only subtractions are those of lines 87 and 88)
Sub(x, y) ==
    IF x.t = "nan" \/ y.t = "nan" THEN NaN
    ELSE IF x.t = "inf" /\ y.t = "inf" THEN NaN
    ELSE IF x.t = "inf" THEN Inf
    ELSE IF y.t = "zero" THEN x
    ELSE IF x.e > y.e THEN x
    ELSE IF x.t = "rat" /\ y.t = "rat"
         THEN (IF x.n * y.d = y.n * x.d THEN Zero
               ELSE Rat(x.n * y.d - y.n * x.d, x.d * y.d, x.e))
    ELSE Irr(x.e)

\* x ** 2; unlike *, Python's ** raises OverflowError when a finite operand's
\* power exceeds the double range (SqRaises)
Sq(x) == Mul(x, x)

SqRaises(x) == x.t \in {"rat", "irr"} /\ 2 * x.e > ExpLim

\* x ** -0.125 for x # 0.0 (Python raises ZeroDivisionError for 0.0 ** -0.125);
\* H^(3/8) still counts as a significand, so the magnitude of a finite result is H^0.
PowNegEighth(x) ==
    IF x.t = "nan" THEN NaN
    ELSE IF x.t = "inf" THEN Zero
    ELSE Irr(IF x.e >= 0 THEN -(x.e \div 8) ELSE (-x.e) \div 8)

\* math.sqrt(x)
Sqrt(x) ==
    IF x.t \in {"nan", "inf", "zero"} THEN x
    ELSE Irr(IF x.e >= 0 THEN x.e \div 2 ELSE -((-x.e) \div 2))

\* The literals of the script.
Num(n, d) == Rat(n, d, 0)
C_MU == Num(9, 100)
PiOver4 == Irr(0)

\* ------------------------------------------------------------- inputs
\* st.number_input(..., min_value=1e-9): any float >= 1e-9; there is no max_value.
Magnitudes == {0, MaxExp}
Scalars == {Rat(1, 1, e) : e \in Magnitudes}
Lengths == {Rat(m, 1, e) : m \in 1..MaxMant, e \in Magnitudes}

\* -------------------------------------------------------------- state
VARIABLES
    pc,               \* position of the running script
    model_choice,     \* line 30
    app_choice,       \* line 44
    rho, mu,          \* lines 52-53
    cross_sec_choice, \* line 72 (0: not asked in this run)
    in1, in2,         \* the number inputs of the geometry block, lines 80-112
    is_2d_channel,    \* lines 59, 105
    vel_type_choice,  \* value of the "Boundary Condition Type" selectbox, line 124
    Dh, A, U, l, I, visc_rat, k, omega, epsilon, Re,   \* line 58
    nuTilda,          \* line 243
    presented,        \* the values the page shows (st.metric / st.markdown)
    err               \* how the run ended early: st.stop() or an exception, and where

vars == <<pc, model_choice, app_choice, rho, mu, cross_sec_choice, in1, in2,
          is_2d_channel, vel_type_choice, Dh, A, U, l, I, visc_rat, k, omega,
          epsilon, Re, nuTilda, presented, err>>

NoErr == [x |-> "none", line |-> 0]
Raised(x, line) == [x |-> x, line |-> line]

Internal(app) == app \in {1, 2}

\* The first execution of the script has not begun; the widgets hold their defaults.
Init ==
    /\ pc = "start"
    /\ model_choice = 1
    /\ app_choice = 1
    /\ rho = Rat(1, 1, 0)
    /\ mu = Rat(1, 1, 0)
    /\ cross_sec_choice = 0
    /\ in1 = None
    /\ in2 = None
    /\ is_2d_channel = FALSE
    /\ vel_type_choice = 1
    /\ Dh = None /\ A = None /\ U = None /\ l = None /\ I = None
    /\ visc_rat = None /\ k = None /\ omega = None /\ epsilon = None /\ Re = None
    /\ nuTilda = None
    /\ presented = {}
    /\ err = NoErr

\* Whether the finished run drew the "Boundary Condition Type" selectbox (line 124).
\* Streamlit keeps a widget's value for the next run only if the run drew it.
SelectboxDrawn ==
    /\ pc \in {"done", "error"}
    /\ Internal(app_choice)
    /\ ~is_2d_channel
    /\ err.x = "none" \/ err.line > 124

\* Faulty variant of Rerun: the script without line 58 and line 59, so that the
\* interpreter's previous values survive into the next execution.
RerunKeep ==
    /\ pc \in {"start", "done", "stopped", "error"}
    /\ \E m \in 1..3, a \in 1..6, r \in Scalars, v \in Scalars :
          /\ model_choice' = m
          /\ app_choice' = a
          /\ rho' = r
          /\ mu' = v
    /\ cross_sec_choice' = 0
    /\ in1' = None
    /\ in2' = None
    /\ vel_type_choice' = IF SelectboxDrawn THEN vel_type_choice ELSE 1
    /\ presented' = {}
    /\ err' = NoErr
    /\ pc' = "inputs"
    /\ UNCHANGED <<Dh, A, U, l, I, visc_rat, k, omega, epsilon, Re, nuTilda,
                   is_2d_channel>>

\* Lines 26-59: a user interaction re-executes the script from the top.  The
\* sidebar widgets are read and every result variable is set to None.
Rerun ==
    /\ pc \in {"start", "done", "stopped", "error"}
    /\ \E m \in 1..3, a \in 1..6, r \in Scalars, v \in Scalars :
          /\ model_choice' = m
          /\ app_choice' = a
          /\ rho' = r
          /\ mu' = v
    /\ Dh' = None /\ A' = None /\ U' = None /\ l' = None /\ I' = None
    /\ visc_rat' = None /\ k' = None /\ omega' = None /\ epsilon' = None /\ Re' = None
    /\ nuTilda' = None
    /\ is_2d_channel' = FALSE
    /\ cross_sec_choice' = 0
    /\ in1' = None
    /\ in2' = None
    /\ vel_type_choice' = IF SelectboxDrawn THEN vel_type_choice ELSE 1
    /\ presented' = {}
    /\ err' = NoErr
    /\ pc' = "inputs"

\* What the geometry block leaves: the choice, its inputs, Dh, and A unless
\* computing it raised at line ln.
GeometryDone(c, x, y, dh, raises, ln, area) ==
    /\ cross_sec_choice' = c
    /\ in1' = x
    /\ in2' = y
    /\ Dh' = dh
    /\ A' = IF raises THEN A ELSE area
    /\ err' = IF raises THEN Raised("OverflowError", ln) ELSE err
    /\ pc' = IF raises THEN "error" ELSE "velocity"
    /\ UNCHANGED <<model_choice, app_choice, rho, mu, vel_type_choice, U, l, I,
                   visc_rat, k, omega, epsilon, Re, nuTilda, presented>>

\* Lines 79-82
Circular ==
    /\ pc = "inputs" /\ Internal(app_choice)
    /\ \E diam \in Scalars :
          GeometryDone(1, diam, None, diam, SqRaises(diam), 82, Mul(PiOver4, Sq(diam)))
    /\ UNCHANGED is_2d_channel

\* Line 87
AnnularDh(Din, Dout) == Sub(Dout, Din)

\* Line 88
AnnularA(Din, Dout) == Mul(PiOver4, Sub(Sq(Dout), Sq(Din)))

\* Lines 83-91
Annular ==
    /\ pc = "inputs" /\ Internal(app_choice)
    /\ \E Din \in Lengths, Dout \in Lengths :
          IF Gt(Dout, Din)
          THEN GeometryDone(2, Din, Dout, AnnularDh(Din, Dout),
                            SqRaises(Dout) \/ SqRaises(Din), 88, AnnularA(Din, Dout))
          ELSE /\ cross_sec_choice' = 2
               /\ in1' = Din
               /\ in2' = Dout
               /\ err' = Raised("stop", 91)
               /\ pc' = "stopped"
               /\ UNCHANGED <<model_choice, app_choice, rho, mu, vel_type_choice,
                              Dh, A, U, l, I, visc_rat, k, omega, epsilon, Re,
                              nuTilda, presented>>
    /\ UNCHANGED is_2d_channel

\* Lines 92-95
Square ==
    /\ pc = "inputs" /\ Internal(app_choice)
    /\ \E side \in Scalars :
          GeometryDone(3, side, None, side, SqRaises(side), 95, Sq(side))
    /\ UNCHANGED is_2d_channel

\* Line 99
RectangularDh(a, b) == Div(Mul(Mul(Num(2, 1), a), b), Add(a, b))

\* Lines 96-100
Rectangular ==
    /\ pc = "inputs" /\ Internal(app_choice)
    /\ \E a \in Lengths, b \in Lengths :
          GeometryDone(4, a, b, RectangularDh(a, b), FALSE, 0, Mul(a, b))
    /\ UNCHANGED is_2d_channel

\* Lines 101-105
Channel2D ==
    /\ pc = "inputs" /\ Internal(app_choice)
    /\ \E a \in Scalars :
          GeometryDone(5, a, None, Mul(Num(2, 1), a), FALSE, 0, None)
    /\ is_2d_channel' = TRUE

\* Lines 106-110
AreaPerimeter ==
    /\ pc = "inputs" /\ Internal(app_choice)
    /\ \E A_in \in Scalars, P_in \in Scalars :
          GeometryDone(6, A_in, P_in, Div(Mul(Num(4, 1), A_in), P_in), FALSE, 0, A_in)
    /\ UNCHANGED is_2d_channel

\* Lines 111-114
SpecifiedDh ==
    /\ pc = "inputs" /\ Internal(app_choice)
    /\ \E d \in Scalars :
          GeometryDone(7, d, None, d, SqRaises(d), 113, Mul(PiOver4, Sq(d)))
    /\ UNCHANGED is_2d_channel

\* Lines 129-137: the bulk velocity for boundary-condition type v and its number input x
ResolveVelocity(v, x, rho_, A_) ==
    CASE v = 1 -> x
      [] v = 2 -> Div(x, Mul(rho_, A_))
      [] v = 3 -> Div(x, A_)

\* Faulty variant of Velocity: the selectbox of line 124 is drawn and read for a
\* 2D channel too, so that lines 134 and 137 can meet A = None.
VelocityAlwaysSelect ==
    /\ pc = "velocity"
    /\ \E x \in Scalars, v \in 1..3 :
          LET ln == IF v = 2 THEN 134 ELSE 137 IN
          /\ vel_type_choice' = v
          /\ IF v \in {2, 3} /\ IsNone(A)
             THEN U' = U /\ err' = Raised("TypeError", ln) /\ pc' = "error"
             ELSE IF v \in {2, 3} /\ DivRaises(IF v = 2 THEN Mul(rho, A) ELSE A)
             THEN U' = U /\ err' = Raised("ZeroDivisionError", ln) /\ pc' = "error"
             ELSE /\ U' = ResolveVelocity(v, x, rho, A)
                  /\ pc' = "turbulence"
                  /\ err' = err
    /\ UNCHANGED <<model_choice, app_choice, rho, mu, cross_sec_choice, in1, in2,
                   is_2d_channel, Dh, A, l, I, visc_rat, k, omega, epsilon, Re,
                   nuTilda, presented>>

\* Lines 116-137.  A 2D channel draws only the velocity input; otherwise the
\* selectbox is drawn and its value decides how U is computed.
Velocity ==
    /\ pc = "velocity"
    /\ \E x \in Scalars :
          IF is_2d_channel
          THEN /\ U' = x
               /\ pc' = "turbulence"
               /\ UNCHANGED <<vel_type_choice, err>>
          ELSE \E v \in 1..3 :
                  LET ln == IF v = 2 THEN 134 ELSE 137 IN
                  /\ vel_type_choice' = v
                  /\ IF v \in {2, 3} /\ IsNone(A)
                     THEN U' = U /\ err' = Raised("TypeError", ln) /\ pc' = "error"
                     ELSE IF v \in {2, 3} /\ DivRaises(IF v = 2 THEN Mul(rho, A) ELSE A)
                     THEN U' = U /\ err' = Raised("ZeroDivisionError", ln) /\ pc' = "error"
                     ELSE /\ U' = ResolveVelocity(v, x, rho, A)
                          /\ pc' = "turbulence"
                          /\ err' = err
    /\ UNCHANGED <<model_choice, app_choice, rho, mu, cross_sec_choice, in1, in2,
                   is_2d_channel, Dh, A, l, I, visc_rat, k, omega, epsilon, Re,
                   nuTilda, presented>>

\* Lines 150-166: the length scale for l_choice c; est is the radio of line 153,
\* x the number input of line 162 or 165
LengthScale(c, est, x, Dh_) ==
    CASE c = 1 -> Mul(Num(7, 100), Dh_)
      [] c = 2 -> Mul(Num(2, 5), IF est THEN Div(Dh_, Num(2, 1)) ELSE x)
      [] c = 3 -> x

\* Lines 139-166
TurbulenceGeneration ==
    /\ pc = "turbulence"
    /\ \E c \in 1..3, est \in BOOLEAN, x \in Scalars :
          IF IsNone(Dh) /\ (c = 1 \/ (c = 2 /\ est))
          THEN /\ l' = l
               /\ err' = Raised("TypeError", IF c = 1 THEN 151 ELSE 159)
               /\ pc' = "error"
          ELSE l' = LengthScale(c, est, x, Dh) /\ err' = err /\ pc' = "button"
    /\ UNCHANGED <<model_choice, app_choice, rho, mu, cross_sec_choice, in1, in2,
                   is_2d_channel, vel_type_choice, Dh, A, U, I, visc_rat, k, omega,
                   epsilon, Re, nuTilda, presented>>

\* Faulty variant of ExternalPair: "Pumps / Compressors" (5) falls through to the
\* general pair.
ExternalPairPumpsGeneral(app) ==
    IF app = 3 THEN <<Num(1, 100), Num(1, 1)>>
    ELSE IF app = 4 THEN <<Num(1, 10), Num(10, 1)>>
    ELSE <<Num(1, 20), Num(5, 1)>>

\* Lines 173-178: the (I, visc_rat) pair of an external application
ExternalPair(app) ==
    IF app = 3 THEN <<Num(1, 100), Num(1, 1)>>
    ELSE IF app \in {4, 5} THEN <<Num(1, 10), Num(10, 1)>>
    ELSE <<Num(1, 20), Num(5, 1)>>

\* Lines 169-182
External ==
    /\ pc = "inputs" /\ ~Internal(app_choice)
    /\ I' = ExternalPair(app_choice)[1]
    /\ visc_rat' = ExternalPair(app_choice)[2]
    /\ IF model_choice > 1 THEN \E x \in Scalars : U' = x ELSE U' = U
    /\ pc' = "button"
    /\ UNCHANGED <<model_choice, app_choice, rho, mu, cross_sec_choice, in1, in2,
                   is_2d_channel, vel_type_choice, Dh, A, l, k, omega, epsilon, Re,
                   nuTilda, presented, err>>

\* Line 186, button not pressed: the run ends with nothing computed or shown.
NoClick ==
    /\ pc = "button"
    /\ pc' = "done"
    /\ UNCHANGED <<model_choice, app_choice, rho, mu, cross_sec_choice, in1, in2,
                   is_2d_channel, vel_type_choice, Dh, A, U, l, I, visc_rat, k,
                   omega, epsilon, Re, nuTilda, presented, err>>

\* C_MU ** -0.25
CmuPowNegQuarter == Irr(0)

\* Lines 189-198: what the internal-flow block assigns, and the exception that
\* ends it, if any.
InternalCalc(rho_, mu_, U_, Dh_, l_) ==
    LET out(x, re, i, kk, om, ep, vr) ==
            [err |-> x, Re |-> re, I |-> i, k |-> kk, omega |-> om,
             epsilon |-> ep, visc_rat |-> vr]
    IN
    IF IsNone(U_) \/ IsNone(Dh_)
    THEN out(Raised("TypeError", 189), None, None, None, None, None, None)
    ELSE
    LET re == Div(Mul(Mul(rho_, U_), Dh_), mu_) IN
    IF re.t = "zero"
    THEN out(Raised("ZeroDivisionError", 190), re, None, None, None, None, None)
    ELSE
    LET i == Mul(Num(4, 25), PowNegEighth(re))
        kk == Mul(Num(3, 2), Sq(Mul(U_, i)))
    IN
    IF SqRaises(Mul(U_, i))
    THEN out(Raised("OverflowError", 191), re, i, None, None, None, None)
    ELSE IF GtZero(kk) /\ IsNone(l_)
    THEN out(Raised("TypeError", 192), re, i, kk, None, None, None)
    ELSE IF GtZero(kk) /\ GtZero(l_)
    THEN LET om == Div(Mul(CmuPowNegQuarter, Sqrt(kk)), l_)
             ep == Mul(Mul(C_MU, kk), om)
         IN IF DivRaises(om)
            THEN out(Raised("ZeroDivisionError", 195), re, i, kk, om, ep, None)
            ELSE out(NoErr, re, i, kk, om, ep, Div(Div(Mul(rho_, kk), om), mu_))
    ELSE out(NoErr, re, i, kk, None, None, Num(1, 1))

\* Lines 186-198, button pressed
Calculate ==
    /\ pc = "button"
    /\ IF Internal(app_choice)
       THEN LET r == InternalCalc(rho, mu, U, Dh, l) IN
            /\ Re' = r.Re
            /\ I' = r.I
            /\ k' = r.k
            /\ omega' = r.omega
            /\ epsilon' = r.epsilon
            /\ visc_rat' = r.visc_rat
            /\ err' = r.err
            /\ pc' = IF r.err = NoErr THEN "display" ELSE "error"
       ELSE /\ pc' = "display"
            /\ UNCHANGED <<Re, I, k, omega, epsilon, visc_rat, err>>
    /\ UNCHANGED <<model_choice, app_choice, rho, mu, cross_sec_choice, in1, in2,
                   is_2d_channel, vel_type_choice, Dh, A, U, l, nuTilda, presented>>

\* Lines 207-217: the recommended boundary conditions, in the order they are
\* formatted, each with the line that formats it
PrimaryNames(m, app) ==
    IF m = 1 THEN <<[name |-> "visc_rat", line |-> 208]>>
    ELSE IF Internal(app)
    THEN <<[name |-> "I", line |-> 211], [name |-> "l", line |-> 212]>>
    ELSE <<[name |-> "I", line |-> 215], [name |-> "visc_rat", line |-> 216]>>

\* Lines 221-226: a flow property is shown when its value is true
FlowNames(re, u, dh) ==
    (IF Truthy(re) THEN {"Re"} ELSE {})
        \cup (IF Truthy(u) THEN {"U"} ELSE {})
        \cup (IF Truthy(dh) THEN {"Dh"} ELSE {})

\* Line 234
NeedsDirichlet(k_, U_) == IsNone(k_) /\ ~IsNone(U_)

\* Lines 235-238: what the back-calculation assigns, and the exception that ends
\* it, if any
DirichletCalc(rho_, mu_, U_, I_, visc_) ==
    IF IsNone(I_) \/ IsNone(visc_)
    THEN [err |-> Raised("TypeError", IF IsNone(I_) THEN 235 ELSE 236),
          k |-> None, omega |-> None, epsilon |-> None]
    ELSE IF SqRaises(Mul(U_, I_))
    THEN [err |-> Raised("OverflowError", 235),
          k |-> None, omega |-> None, epsilon |-> None]
    ELSE
    LET kk == Mul(Num(3, 2), Sq(Mul(U_, I_)))
        mut == Mul(visc_, mu_)
        om == IF GtZero(mut) THEN Div(Mul(rho_, kk), mut) ELSE Inf
    IN [err |-> NoErr, k |-> kk, omega |-> om, epsilon |-> Mul(Mul(C_MU, kk), om)]

\* Lines 242-255: the reference Dirichlet values, in the order they are formatted
SecondaryNames(m) ==
    IF m = 1 THEN <<[name |-> "nuTilda", line |-> 243]>>
    ELSE IF m = 2
    THEN <<[name |-> "k", line |-> 247], [name |-> "epsilon", line |-> 251]>>
    ELSE <<[name |-> "k", line |-> 247], [name |-> "omega", line |-> 255]>>

\* Formatting the items in order: formatting (or multiplying) None raises
\* TypeError, and what was formatted before it stays on the page.
Shown(items, val) ==
    LET bad == {i \in DOMAIN items : IsNone(val[items[i].name])}
        stop == IF bad = {} THEN Len(items) + 1
                ELSE CHOOSE i \in bad : \A j \in bad : i <= j
    IN [set |-> {items[i].name : i \in 1..(stop - 1)},
        err |-> IF bad = {} THEN NoErr ELSE Raised("TypeError", items[stop].line)]

\* Lines 200-255: the results are formatted and shown
Display ==
    /\ pc = "display"
    /\ LET v1 == [visc_rat |-> visc_rat, I |-> I, l |-> l]
           p1 == Shown(PrimaryNames(model_choice, app_choice), v1)
           flow == FlowNames(Re, U, Dh)
           dir == IF NeedsDirichlet(k, U)
                  THEN DirichletCalc(rho, mu, U, I, visc_rat)
                  ELSE [err |-> NoErr, k |-> k, omega |-> omega, epsilon |-> epsilon]
           nut == IF model_choice = 1 /\ ~IsNone(visc_rat)
                  THEN Div(Mul(visc_rat, mu), rho)
                  ELSE None
           v2 == [nuTilda |-> nut, k |-> dir.k, epsilon |-> dir.epsilon,
                  omega |-> dir.omega]
           p2 == Shown(SecondaryNames(model_choice), v2)
       IN
       IF p1.err # NoErr
       THEN /\ presented' = p1.set
            /\ err' = p1.err
            /\ pc' = "error"
            /\ UNCHANGED <<k, omega, epsilon, nuTilda>>
       ELSE IF dir.err # NoErr
       THEN /\ presented' = p1.set \cup flow
            /\ err' = dir.err
            /\ pc' = "error"
            /\ UNCHANGED <<k, omega, epsilon, nuTilda>>
       ELSE /\ k' = dir.k
            /\ omega' = dir.omega
            /\ epsilon' = dir.epsilon
            /\ nuTilda' = nut
            /\ presented' = p1.set \cup flow \cup p2.set
            /\ err' = p2.err
            /\ pc' = IF p2.err = NoErr THEN "done" ELSE "error"
    /\ UNCHANGED <<model_choice, app_choice, rho, mu, cross_sec_choice, in1, in2,
                   is_2d_channel, vel_type_choice, Dh, A, U, l, I, visc_rat, Re>>

Next ==
    \/ Rerun
    \/ Circular
    \/ Annular
    \/ Square
    \/ Rectangular
    \/ Channel2D
    \/ AreaPerimeter
    \/ SpecifiedDh
    \/ Velocity
    \/ TurbulenceGeneration
    \/ External
    \/ NoClick
    \/ Calculate
    \/ Display

Spec == Init /\ [][Next]_vars

\* ---------------------------------------------------------- properties
One == [t |-> "rat", n |-> 1, d |-> 1, e |-> 0]
Two == [t |-> "rat", n |-> 2, d |-> 1, e |-> 0]

\* x <= y, for positive tracked values
LessEq(x, y) ==
    \/ x.e < y.e
    \/ x.e = y.e /\ x.n * y.d <= y.n * x.d

\* The ten result variables of line 58, and nuTilda, are all None.
NothingComputed ==
    /\ IsNone(Dh) /\ IsNone(A) /\ IsNone(U) /\ IsNone(l) /\ IsNone(I)
    /\ IsNone(visc_rat) /\ IsNone(k) /\ IsNone(omega) /\ IsNone(epsilon)
    /\ IsNone(Re) /\ IsNone(nuTilda)

\* The run is an internal-flow run that has passed the geometry block (line 114).
AfterGeometry ==
    /\ Internal(app_choice)
    /\ \/ pc \in {"velocity", "turbulence", "button", "display", "done"}
       \/ pc = "error" /\ err.line > 114

\* The run is an internal-flow run that has passed the velocity block (line 137).
AfterVelocity ==
    /\ Internal(app_choice)
    /\ \/ pc \in {"turbulence", "button", "display", "done"}
       \/ pc = "error" /\ err.line > 137

\* The results section (line 201 on) has been reached and has shown something.
Displayed == pc \in {"done", "error"} /\ presented # {}

\* The quantities of the turbulence result, as opposed to Re, U and Dh.
TurbulenceNames == {"visc_rat", "I", "l", "k", "omega", "epsilon", "nuTilda"}

\* What the code does for an Annular geometry (the part of C1 that holds, and
\* where it stops holding): a geometry with outer <= inner is rejected
\* (st.error, st.stop): the run ends there with Dh, A, U, l and every result
\* variable None and nothing presented, the diameters as entered.  With
\* outer > inner, Dh = outer - inner is finite and positive (Dh + inner = outer),
\* and the area is computed unless outer ** 2 exceeds the double range, in
\* which case line 88 raises OverflowError and the run ends with A = None.
AnnularAsCoded ==
    cross_sec_choice = 2 =>
        IF Gt(in2, in1)
        THEN /\ pc # "stopped"
             /\ err.x # "stop"
             /\ IsFin(Dh)
             /\ Add(Dh, in1) = in2
             /\ (err = Raised("OverflowError", 88)) <=> SqRaises(in2)
             /\ SqRaises(in2) => pc = "error" /\ IsNone(A)
             /\ ~SqRaises(in2) => GtZero(A)
        ELSE /\ pc = "stopped"
             /\ err = Raised("stop", 91)
             /\ NothingComputed
             /\ presented = {}

\* C1 as stated: outer <= inner is rejected with nothing produced, and with
\* outer > inner the resolution succeeds (no error at lines 86-88) with
\* Dh = outer - inner > 0.
C1_AsStated ==
    cross_sec_choice = 2 =>
        IF Gt(in2, in1)
        THEN /\ pc # "stopped"
             /\ ~(pc = "error" /\ err.line \in 86..88)
             /\ IsFin(Dh)
             /\ Add(Dh, in1) = in2
        ELSE /\ pc = "stopped"
             /\ NothingComputed
             /\ presented = {}

C3_AsStated ==
    LET kval == Mul([t |-> "rat", n |-> 3, d |-> 2, e |-> 0], Sq(Mul(U, I)))
        degenerate ==
            \/ U = Zero
            \/ /\ ~IsNone(U) /\ ~IsNone(I)
               /\ ~SqRaises(Mul(U, I))
               /\ ~(GtZero(kval) /\ GtZero(l))
    IN (Internal(app_choice) /\ pc \in {"display", "done", "error"}
            /\ ~IsNone(Re) /\ degenerate) =>
           /\ visc_rat = One
           /\ IsNone(k) /\ IsNone(omega) /\ IsNone(epsilon)
           /\ pc # "error"

\* C4 as stated: after a completed calculation in which U is defined, k, omega
\* and epsilon are all defined, and where the back-calculation of lines 235-238
\* produced them (external branch), omega = rho*k/mut if mut > 0, else +inf.
C4_AsStated ==
    (pc = "done" /\ presented # {} /\ ~IsNone(U)) =>
        /\ ~IsNone(k) /\ ~IsNone(omega) /\ ~IsNone(epsilon)
        /\ ~Internal(app_choice) =>
              omega = IF GtZero(Mul(visc_rat, mu))
                      THEN Div(Mul(rho, k), Mul(visc_rat, mu))
                      ELSE Inf

\* C5: in an external / general run, from the flow-specification block on,
\* (I, visc_rat) is (0.01, 1.0) for external aerodynamics, (0.1, 10.0) for
\* high-speed / complex flows and pumps / compressors, (0.05, 5.0) for unsure,
\* whatever the model, rho, mu, reference velocity and the inputs of earlier
\* runs; Re, Dh and l (and A) are None.
C5_ExternalPairs ==
    (~Internal(app_choice) /\ pc \in {"button", "display", "done", "error"}) =>
        /\ app_choice = 3 =>
              /\ I = [t |-> "rat", n |-> 1, d |-> 100, e |-> 0]
              /\ visc_rat = [t |-> "rat", n |-> 1, d |-> 1, e |-> 0]
        /\ app_choice \in {4, 5} =>
              /\ I = [t |-> "rat", n |-> 1, d |-> 10, e |-> 0]
              /\ visc_rat = [t |-> "rat", n |-> 10, d |-> 1, e |-> 0]
        /\ app_choice = 6 =>
              /\ I = [t |-> "rat", n |-> 1, d |-> 20, e |-> 0]
              /\ visc_rat = [t |-> "rat", n |-> 5, d |-> 1, e |-> 0]
        /\ IsNone(Re) /\ IsNone(Dh) /\ IsNone(l) /\ IsNone(A)
        /\ cross_sec_choice = 0
        /\ ~is_2d_channel

\* A pumps / compressors run with the k-omega model has completed after an
\* internal-flow run in which "Mass Flow Rate" was selected.
C5_Witness ==
    /\ app_choice = 5
    /\ model_choice = 3
    /\ pc = "done"
    /\ presented # {}
    /\ vel_type_choice = 2

\* C6 as stated: once results are shown, the turbulence quantities on the page
\* are exactly: Spalart-Allmaras: visc_rat and nuTilda; k-epsilon: I and l
\* (internal) or I and visc_rat (external), with k and epsilon; k-omega: the
\* same primary values, with k and omega.
C6_AsStated ==
    LET primary == IF model_choice = 1 THEN {"visc_rat"}
                   ELSE IF app_choice \in {1, 2} THEN {"I", "l"}
                   ELSE {"I", "visc_rat"}
        secondary == IF model_choice = 1 THEN {"nuTilda"}
                     ELSE IF model_choice = 2 THEN {"k", "epsilon"}
                     ELSE {"k", "omega"}
    IN Displayed => presented \cap TurbulenceNames = primary \cup secondary

\* C7: no result variable computed in an earlier run is carried into a later
\* one.  When the widgets of a run are about to be read, all ten variables of
\* line 58 are None, is_2d_channel is False and nothing is presented; at every
\* later position a variable is defined only if a block of the current run
\* that has already executed assigns it.  (Each block is a function of the
\* inputs and of the variables assigned before it in the same run, so runs
\* with identical inputs compute identical values.)
C7_FreshEachRun ==
    /\ pc \in {"start", "inputs", "stopped"} =>
          NothingComputed /\ ~is_2d_channel /\ presented = {}
    /\ pc = "inputs" => err = NoErr /\ cross_sec_choice = 0
    /\ pc = "velocity" =>
          /\ IsNone(U) /\ IsNone(l) /\ presented = {}
          /\ is_2d_channel <=> cross_sec_choice = 5
    /\ pc = "turbulence" => IsNone(l) /\ presented = {}
    /\ (Internal(app_choice) /\ pc \in {"velocity", "turbulence", "button"}) =>
          /\ IsNone(I) /\ IsNone(visc_rat) /\ IsNone(Re)
          /\ IsNone(k) /\ IsNone(omega) /\ IsNone(epsilon) /\ IsNone(nuTilda)
    /\ (~Internal(app_choice) /\ pc # "start") =>
          /\ IsNone(Dh) /\ IsNone(A) /\ IsNone(l) /\ IsNone(Re)
          /\ ~is_2d_channel
          /\ model_choice = 1 => IsNone(U)
    /\ pc \in {"button", "display"} =>
          IsNone(nuTilda) /\ presented = {}
    /\ (~Internal(app_choice) /\ pc \in {"button", "display"}) =>
          IsNone(k) /\ IsNone(omega) /\ IsNone(epsilon)
    /\ model_choice # 1 => IsNone(nuTilda)

\* A run is about to read its widgets after an earlier run that computed a
\* bulk velocity from a volume flow rate.
C7_Witness == pc = "inputs" /\ vel_type_choice = 3

\* What the code does for a Rectangular geometry (the part of C8 that holds,
\* and where it stops holding): the area is the float
\* product a*b, +inf when it exceeds the double range.  While 2*a*b stays in
\* range, Dh = 2ab/(a+b) (exactly so in this model, which does not round
\* significands) and Dh <= min(2a, 2b); when 2*a*b overflows, Dh is not a
\* finite number (+inf, or nan) and the bound fails.
RectangularAsCoded ==
    (cross_sec_choice = 4 /\ pc # "inputs") =>
        LET over == in1.e + in2.e > ExpLim IN
        /\ AfterGeometry
        /\ IF over
           THEN A = Inf /\ Dh.t \in {"inf", "nan"}
           ELSE /\ A.t = "rat" /\ A.e = in1.e + in2.e
                /\ A.n * in1.d * in2.d = A.d * in1.n * in2.n
                /\ IsFin(Dh)
                /\ LessEq(Dh, Mul(Two, in1))
                /\ LessEq(Dh, Mul(Two, in2))
                /\ in1.e = in2.e =>
                      /\ Dh.t = "rat" /\ Dh.e = in1.e
                      /\ Dh.n * (in1.n + in2.n) = 2 * in1.n * in2.n * Dh.d

\* C8 as stated: for every Rectangular(a, b), Dh <= min(2a, 2b) and A = a*b.
C8_AsStated ==
    (cross_sec_choice = 4 /\ pc # "inputs") =>
        /\ IsFin(Dh)
        /\ LessEq(Dh, Mul(Two, in1))
        /\ LessEq(Dh, Mul(Two, in2))
        /\ IsFin(A)

\* What the code does for geometry and velocity (the part of C9 that holds, and
\* where it stops holding): geometry resolution either raises OverflowError
\* (Circular, Annular, Square, Specified Dh, when a squared length exceeds the
\* double range) or leaves Dh defined and not 0.0 (positive, possibly +inf;
\* nan only for Rectangular), A = None exactly for the 2D channel and
\* otherwise A > 0 (possibly +inf).  After velocity resolution U is defined:
\* U > 0, except that U = 0.0 when A, or rho*A, is +inf.
GeometryAndVelocityAsCoded ==
    /\ AfterGeometry =>
          /\ GtZero(Dh) \/ (cross_sec_choice = 4 /\ Dh.t = "nan")
          /\ IsNone(A) <=> cross_sec_choice = 5
          /\ cross_sec_choice # 5 => GtZero(A)
    /\ (Internal(app_choice) /\ pc = "error" /\ err.line <= 114) =>
          /\ err.x = "OverflowError"
          /\ cross_sec_choice \in {1, 2, 3, 7}
          /\ IsNone(A)
          /\ SqRaises(IF cross_sec_choice = 2 THEN in2 ELSE in1)
    /\ AfterVelocity =>
          /\ ~IsNone(U)
          /\ \/ GtZero(U)
             \/ /\ U = Zero
                /\ vel_type_choice \in {2, 3}
                /\ (IF vel_type_choice = 2 THEN Mul(rho, A) ELSE A) = Inf

\* C9 as stated: every geometry that is not rejected resolves to Dh > 0, with
\* A = None exactly for the 2D channel and A > 0 for the six other variants,
\* and every flow specification on those yields U > 0.
C9_AsStated ==
    (Internal(app_choice) /\ cross_sec_choice # 0 /\ pc # "stopped") =>
        /\ GtZero(Dh)
        /\ IsNone(A) <=> cross_sec_choice = 5
        /\ cross_sec_choice # 5 => GtZero(A)
        /\ (pc \notin {"velocity"} /\ cross_sec_choice # 5) => GtZero(U)

\* C10 as stated: every quantity is defined where it is used or presented: Dh,
\* U and l before lines 189-192 read them, I and visc_rat before lines 235-236
\* read them, and no formatting of a result meets None (no run ends in
\* TypeError).
C10_AsStated ==
    /\ (Internal(app_choice) /\ pc = "button") =>
          ~IsNone(Dh) /\ ~IsNone(U) /\ ~IsNone(l)
    /\ (pc = "display" /\ NeedsDirichlet(k, U)) => ~IsNone(I) /\ ~IsNone(visc_rat)
    /\ err.x # "TypeError"

====
